---- MODULE Spec2Model ----
(***************************************************************************)
(* Model of thelittlehackers/model/email.py: the value objects Mailbox and *)
(* Email, their constructors, their from_json deserializers and their      *)
(* accessors.                                                              *)
(*                                                                         *)
(* A Python object is a record tagged by its type in the field t.  A       *)
(* string is the sequence of its characters, so that strip(), lower() and  *)
(* the f-string of Mailbox.__str__ are computed and not assumed.  A call   *)
(* yields an outcome: the value returned, or the exception raised; either  *)
(* one carries the log of the strings handed to the address-validation     *)
(* utility while the call ran.                                             *)
(***************************************************************************)
EXTENDS Integers, Sequences, FiniteSets, TLC

VARIABLES
    call,       \* the call the caller makes: the operation and its arguments
    ret,        \* the outcome of that call, NoRet before it ran
    self,       \* the value the call returned, None when it returned none
    got,        \* the latest accessor read on self, NoRead before any
    passed      \* the objects the caller passed to Email(...) as recipients,
                \* cc_recipients, bcc_recipients and attached_files, as they are now

vars == <<call, ret, self, got, passed>>

----------------------------------------------------------------------------
\* Bounds of the model.

\* Longest string drawn as an email address.
MaxAddressLen == 4

\* Longest string drawn as a name.
MaxNameLen == 2

\* Longest sequence drawn as recipients (objects or payloads).
MaxRecipients == 2

\* Most elements the caller appends to the lists it passed.
MaxAppends == 1

----------------------------------------------------------------------------
\* Python values.

None == [t |-> "None"]

Str(s) == [t |-> "str", s |-> s]

\* A pathlib.Path: an os.PathLike object, which defines no __iter__.
Path(s) == [t |-> "Path", s |-> s]

List(items) == [t |-> "list", items |-> items]

\* A dict with string keys: d is a function whose domain is the set of keys.
Dict(d) == [t |-> "dict", d |-> d]

EmptyDict == Dict(<<>>)

\* bool(value): None, the empty string, the empty list and the empty dict are
\* falsy; an object of a class with neither __bool__ nor __len__ is truthy.
Truthy(value) ==
    CASE value.t = "None" -> FALSE
      [] value.t = "str"  -> Len(value.s) > 0
      [] value.t = "list" -> Len(value.items) > 0
      [] value.t = "dict" -> DOMAIN value.d # {}
      [] OTHER            -> TRUE

\* isinstance(value, Iterable): the class defines __iter__.  str, list and dict
\* do; Mailbox, pathlib.Path and NoneType do not.
IsIterable(value) == value.t \in {"str", "list", "dict"}

\* Outcomes of a call.
Return(value, log) == [kind |-> "return", value |-> value, log |-> log]

Raise(error, arg, log) == [kind |-> "raise", error |-> error, arg |-> arg, log |-> log]

NoRet == [kind |-> "none"]

NoRead == [accessor |-> "none"]

Returned(o) == o.kind = "return"

Raised(o, error) == o.kind = "raise" /\ o.error = error

----------------------------------------------------------------------------
\* str methods.

IsSpace(c) == c = " "

RECURSIVE lstrip(_)
lstrip(s) ==
    IF s # <<>> /\ IsSpace(Head(s)) THEN lstrip(Tail(s)) ELSE s

RECURSIVE rstrip(_)
rstrip(s) ==
    IF s # <<>> /\ IsSpace(s[Len(s)]) THEN rstrip(SubSeq(s, 1, Len(s) - 1)) ELSE s

\* str.strip(): without leading and trailing whitespace.
strip(s) == rstrip(lstrip(s))

LowerChar(c) ==
    CASE c = "A" -> "a"
      [] c = "B" -> "b"
      [] c = "J" -> "j"
      [] OTHER   -> c

\* str.lower()
lower(s) == [i \in 1..Len(s) |-> LowerChar(s[i])]

\* format(value, '') inside an f-string: str(value).
Format(value) ==
    CASE value.t = "None" -> <<"N", "o", "n", "e">>
      [] value.t = "str"  -> value.s

----------------------------------------------------------------------------
\* Collaborators (thelittlehackers.utils).

\* any_utils.is_empty_or_none(value)
is_empty_or_none(value) ==
    \/ value.t = "None"
    \/ value.t = "str" /\ Len(value.s) = 0

\* A well-formed address: local-part @ domain, neither empty, no whitespace.
IsEmailAddress(s) ==
    /\ Cardinality({i \in 1..Len(s) : s[i] = "@"}) = 1
    /\ s[1] # "@"
    /\ s[Len(s)] # "@"
    /\ \A i \in 1..Len(s) : ~IsSpace(s[i])

\* string_utils.string_to_email_address(value): the normalized address, or
\* ValueError when the string is no address.
string_to_email_address(value) ==
    LET address == lower(strip(value.s))
    IN  IF IsEmailAddress(address)
        THEN Return(Str(address), <<>>)
        ELSE Raise("ValueError", "Invalid email address", <<>>)

----------------------------------------------------------------------------
\* Helpers of the translation.

\* The outcome o of a step that ran after the steps that logged `log`.
After(log, o) == [o EXCEPT !.log = log \o @]

\* dict[key] and dict.get(key)
HasKey(payload, key) == key \in DOMAIN payload.d

Get(payload, key) == IF HasKey(payload, key) THEN payload.d[key] ELSE None

\* list(value): a new list of the elements value iterates over; TypeError when
\* value is not iterable.  (No call site hands it a dict.)
ListOf(value) ==
    CASE value.t = "list" -> Return(List(value.items), <<>>)
      [] value.t = "str"  -> Return(List([i \in 1..Len(value.s) |-> Str(<<value.s[i]>>)]), <<>>)
      [] OTHER            -> Raise("TypeError", "object is not iterable", <<>>)

----------------------------------------------------------------------------
\* class Mailbox

MailboxObject(name, email_address) ==
    [t |-> "Mailbox", name |-> name, email_address |-> email_address]

\* StrippedName collapsing an empty name to None: name and name.strip() or None
StrippedName_or_none(name) ==
    IF Truthy(name) /\ strip(name.s) # <<>> THEN Str(strip(name.s)) ELSE None

\* Mailbox.__init__, the name: name and name.strip()
StrippedName(name) ==
    IF Truthy(name) THEN Str(strip(name.s)) ELSE name

\* MailboxInit keeping the address as given, once the utility has accepted it.
MailboxInit_raw(email_address, name) ==
    LET stripped == StrippedName(name)
        address  == After(<<email_address>>, string_to_email_address(email_address))
    IN  IF Returned(address)
        THEN Return(MailboxObject(stripped, email_address), address.log)
        ELSE address

\* Mailbox.__init__(email_address, name)
MailboxInit(email_address, name) ==
    LET stripped == StrippedName(name)
        address  == After(<<email_address>>, string_to_email_address(email_address))
    IN  IF Returned(address)
        THEN Return(MailboxObject(stripped, address.value), address.log)
        ELSE address

\* Mailbox.__str__
MailboxStr(mailbox) ==
    Str(<<"\"">> \o Format(mailbox.name) \o <<"\"", " ", "<">>
        \o Format(mailbox.email_address) \o <<">">>)

\* Mailbox.from_json(payload): payload and Mailbox(payload['email_address'],
\* name=payload.get('name'))
MailboxFromJson(payload) ==
    IF ~Truthy(payload)
    THEN Return(payload, <<>>)
    ELSE IF ~HasKey(payload, "email_address")
         THEN Raise("KeyError", "email_address", <<>>)
         ELSE MailboxInit(payload.d["email_address"], Get(payload, "name"))

----------------------------------------------------------------------------
\* class Email

EmailObject(author, recipients, cc_recipients, bcc_recipients, subject, text_content, html_content, attached_files) ==
    [t |-> "Email", author |-> author, recipients |-> recipients,
     cc_recipients |-> cc_recipients, bcc_recipients |-> bcc_recipients,
     subject |-> subject, text_content |-> text_content,
     html_content |-> html_content, attached_files |-> attached_files]

\* HasEmptyContent with `or` for `and`: one empty body is enough to reject.
HasEmptyContent_or(html_content, text_content) ==
    is_empty_or_none(html_content) \/ is_empty_or_none(text_content)

\* Email.__init__, its precondition: no HTML body and no text body.
HasEmptyContent(html_content, text_content) ==
    is_empty_or_none(html_content) /\ is_empty_or_none(text_content)

\* KeepsArgument for a constructor that stores a copy, list(value).
KeepsArgument_copy(value) == FALSE

\* Email.__build_list(value): whether what it returns is the object it was
\* given (`return value`), and not a new list.
KeepsArgument(value) == value.t # "None" /\ IsIterable(value)

\* The parameters of Email.__init__ that go through Email.__build_list.
OneOrManyParameters == {"recipients", "cc_recipients", "bcc_recipients", "attached_files"}

\* Email.__build_list(value)
BuildList(value) ==
    IF value.t = "None"
    THEN Return(None, <<>>)
    ELSE IF IsIterable(value) THEN Return(value, <<>>) ELSE ListOf(value)

\* Email.__init__(author, recipients, subject, bcc_recipients, cc_recipients,
\* html_content, text_content, attached_files)
EmailInit(author, recipients, subject, bcc_recipients, cc_recipients, html_content, text_content, attached_files) ==
    IF HasEmptyContent(html_content, text_content)
    THEN Raise("ValueError", "Empty content", <<>>)
    ELSE
      LET to == BuildList(recipients) IN
      IF ~Returned(to) THEN to ELSE
      LET cc == BuildList(cc_recipients) IN
      IF ~Returned(cc) THEN cc ELSE
      LET bcc == BuildList(bcc_recipients) IN
      IF ~Returned(bcc) THEN bcc ELSE
      LET files == BuildList(attached_files) IN
      IF ~Returned(files) THEN files ELSE
      Return(EmailObject(author, to.value, cc.value, bcc.value, subject,
                         text_content, html_content, files.value), <<>>)

\* The list comprehension [Mailbox.from_json(recipient_json) for
\* recipient_json in payload]: the elements in order, stopping at the first
\* one that raises.
RECURSIVE MailboxesFromJson(_, _)
MailboxesFromJson(items, done) ==
    IF items = <<>>
    THEN Return(List(done), <<>>)
    ELSE LET mailbox == MailboxFromJson(Head(items))
         IN  IF Returned(mailbox)
             THEN After(mailbox.log,
                        MailboxesFromJson(Tail(items), Append(done, mailbox.value)))
             ELSE mailbox

\* ParseMailboxesFromJson building the list from the last element to the first.
ParseMailboxesFromJson_reversed(payload) ==
    IF ~Truthy(payload)
    THEN Return(None, <<>>)
    ELSE IF payload.t = "dict"
         THEN LET mailbox == MailboxFromJson(payload)
              IN  IF Returned(mailbox)
                  THEN After(mailbox.log, ListOf(mailbox.value))
                  ELSE mailbox
         ELSE MailboxesFromJson(
                  [i \in 1..Len(payload.items) |->
                      payload.items[Len(payload.items) + 1 - i]], <<>>)

\* Email.__parse_mailboxes_from_json(payload)
ParseMailboxesFromJson(payload) ==
    IF ~Truthy(payload)
    THEN Return(None, <<>>)
    ELSE IF payload.t = "dict"
         THEN LET mailbox == MailboxFromJson(payload)
              IN  IF Returned(mailbox)
                  THEN After(mailbox.log, ListOf(mailbox.value))
                  ELSE mailbox
         ELSE MailboxesFromJson(payload.items, <<>>)

\* Subscript as payload.get(key): None for a key the mapping does not hold.
Subscript_get(payload, key, log) == Return(Get(payload, key), log)

\* payload[key] in Email.from_json: the value, or KeyError when the mapping
\* does not hold the key.
Subscript(payload, key, log) ==
    IF HasKey(payload, key)
    THEN Return(payload.d[key], log)
    ELSE Raise("KeyError", key, log)

\* Email.from_json(payload)
EmailFromJson(payload) ==
    IF payload.t = "None" THEN Return(None, <<>>) ELSE
    LET author_json == Subscript(payload, "author", <<>>) IN
    IF ~Returned(author_json) THEN author_json ELSE
    LET author == MailboxFromJson(author_json.value) IN
    IF ~Returned(author) THEN author ELSE
    LET subject == Subscript(payload, "subject", author.log) IN
    IF ~Returned(subject) THEN subject ELSE
    LET recipients_json == Subscript(payload, "recipients", author.log) IN
    IF ~Returned(recipients_json) THEN recipients_json ELSE
    LET recipients == After(author.log, ParseMailboxesFromJson(recipients_json.value)) IN
    IF ~Returned(recipients) THEN recipients ELSE
    LET cc_recipients == After(recipients.log,
                               ParseMailboxesFromJson(Get(payload, "cc_recipients"))) IN
    IF ~Returned(cc_recipients) THEN cc_recipients ELSE
    LET bcc_recipients == After(cc_recipients.log,
                                ParseMailboxesFromJson(Get(payload, "bcc_recipients"))) IN
    IF ~Returned(bcc_recipients) THEN bcc_recipients ELSE
    After(bcc_recipients.log,
          EmailInit(author.value, recipients.value, subject.value,
                    bcc_recipients.value, cc_recipients.value,
                    Get(payload, "html_content"), Get(payload, "text_content"),
                    None))

\* Content with the operands swapped: text_content or html_content.
Content_text_first(email) ==
    IF Truthy(email.text_content) THEN email.text_content ELSE email.html_content

\* Email.content: html_content or text_content
Content(email) ==
    IF Truthy(email.html_content) THEN email.html_content ELSE email.text_content

\* Email.recipients, Email.cc_recipients, Email.bcc_recipients and
\* Email.attached_files: the field as stored.
EmailProperty(email, field) == email[field]

EmailProperties == {"recipients", "cc_recipients", "bcc_recipients", "attached_files"}

\* Mailbox.name and Mailbox.email_address
MailboxName(mailbox) == mailbox.name

MailboxEmailAddress(mailbox) == mailbox.email_address

----------------------------------------------------------------------------
\* The arguments the caller draws.

\* The strings of at most n characters of an alphabet.
Strings(alphabet, n) == UNION {[1..k -> alphabet] : k \in 0..n}

AddressAlphabet == {" ", "A", "a", "@"}

NameAlphabet == {" ", "J"}

Names == {None} \cup {Str(s) : s \in Strings(NameAlphabet, MaxNameLen)}

\* Mailbox(email_address, name)
MailboxCalls ==
    {[op |-> "Mailbox", email_address |-> Str(a), name |-> n] :
        a \in Strings(AddressAlphabet, MaxAddressLen), n \in Names}

\* Strings given as addresses inside payloads: two addresses, one of them to
\* be normalized, and a string that is no address.
SampleAddresses ==
    {Str(<<" ", "A", "@", "b">>), Str(<<"b", "@", "a">>), Str(<<"a", "@">>)}

SampleNames == {None, Str(<<>>), Str(<<" ", "J">>)}

\* The payloads of Mailbox.from_json: None, the empty mapping, and the
\* mappings with the keys email_address and name, each one optional.
MailboxPayloads ==
    {None, EmptyDict}
    \cup {Dict([email_address |-> a]) : a \in SampleAddresses}
    \cup {Dict([email_address |-> a, name |-> n]) : a \in SampleAddresses, n \in SampleNames}
    \cup {Dict([name |-> n]) : n \in SampleNames}

MailboxFromJsonCalls == {[op |-> "Mailbox.from_json", payload |-> p] : p \in MailboxPayloads}

\* Two mailboxes, as the constructor builds them.
Jane == MailboxInit(Str(<<"a", "@", "b">>), Str(<<"J">>)).value

Bob == MailboxInit(Str(<<"b", "@", "a">>), None).value

SampleMailboxes == {Jane, Bob}

\* The sequences of at most n elements of a set.
Seqs(S, n) == UNION {[1..k -> S] : k \in 0..n}

HtmlContents == {None, Str(<<>>), Str(<<"<", "p", ">">>)}

TextContents == {None, Str(<<>>), Str(<<"h", "i">>)}

AttachedFiles ==
    {None, Str(<<"/", "f">>), Path(<<"/", "f">>),
     List(<<Str(<<"/", "f">>), Path(<<"/", "g">>)>>)}

\* Email(author, recipients, subject, ...): recipients is one mailbox or a
\* list of mailboxes.
EmailCalls ==
    {[op |-> "Email", author |-> a, recipients |-> r, subject |-> s,
      bcc_recipients |-> bcc, cc_recipients |-> cc, html_content |-> h,
      text_content |-> x, attached_files |-> f] :
        a \in SampleMailboxes,
        r \in SampleMailboxes \cup {List(q) : q \in Seqs(SampleMailboxes, MaxRecipients)},
        s \in {Str(<<>>), Str(<<"S">>)},
        bcc \in {None, Bob, List(<<Jane>>)},
        cc \in {None, Jane, List(<<Bob, Jane>>)},
        h \in HtmlContents, x \in TextContents, f \in AttachedFiles}

\* Mailbox payloads inside an Email payload.
PJane == Dict([email_address |-> Str(<<" ", "A", "@", "b">>), name |-> Str(<<" ", "J">>)])

PBob == Dict([email_address |-> Str(<<"b", "@", "a">>)])

PInvalid == Dict([email_address |-> Str(<<"a", "@">>)])

PNoAddress == Dict([name |-> Str(<<"J">>)])

\* A key the payload does not hold.
Missing == [t |-> "missing"]

\* The mapping that holds the keys of `fields` that are not Missing.
PayloadOf(fields) ==
    Dict([k \in {key \in DOMAIN fields : fields[key] # Missing} |-> fields[k]])

\* The payloads of Email.from_json: None, and the mappings with each key
\* present or not; a recipients value is one mailbox payload or a sequence.
EmailPayloads ==
    {None} \cup
    {PayloadOf([author |-> a, subject |-> s, recipients |-> r, cc_recipients |-> cc,
                bcc_recipients |-> bcc, html_content |-> h, text_content |-> x]) :
        a \in {Missing, PJane, PInvalid, PNoAddress, EmptyDict},
        s \in {Missing, Str(<<"S">>)},
        r \in {Missing, PJane, PBob, PInvalid, PNoAddress, EmptyDict}
              \cup {List(q) : q \in Seqs({PJane, PBob, PInvalid}, MaxRecipients)},
        cc \in {Missing, PJane, PInvalid, List(<<PBob, PJane>>)},
        bcc \in {Missing, PBob, List(<<PJane>>)},
        h \in (HtmlContents \ {None}) \cup {Missing},
        x \in (TextContents \ {None}) \cup {Missing}}

EmailFromJsonCalls == {[op |-> "Email.from_json", payload |-> p] : p \in EmailPayloads}

----------------------------------------------------------------------------
\* The caller: one call, then reads of the object it returned.

NoCall == [op |-> "none"]

Init ==
    /\ call = NoCall
    /\ ret = NoRet
    /\ self = None
    /\ got = NoRead
    /\ passed = <<>>

\* The caller makes the call c, which ends with outcome o.
Ends(c, o) ==
    /\ call' = c
    /\ ret' = o
    /\ self' = IF Returned(o) THEN o.value ELSE None
    /\ passed' = IF c.op = "Email"
                 THEN [parameter \in OneOrManyParameters |-> c[parameter]]
                 ELSE <<>>
    /\ UNCHANGED got

NewMailbox ==
    /\ call = NoCall
    /\ \E c \in MailboxCalls : Ends(c, MailboxInit(c.email_address, c.name))

CallMailboxFromJson ==
    /\ call = NoCall
    /\ \E c \in MailboxFromJsonCalls : Ends(c, MailboxFromJson(c.payload))

NewEmail ==
    /\ call = NoCall
    /\ \E c \in EmailCalls :
          Ends(c, EmailInit(c.author, c.recipients, c.subject, c.bcc_recipients,
                            c.cc_recipients, c.html_content, c.text_content,
                            c.attached_files))

CallEmailFromJson ==
    /\ call = NoCall
    /\ \E c \in EmailFromJsonCalls : Ends(c, EmailFromJson(c.payload))

\* A read of self leaves everything but got as it is.
Reads(accessor, value) ==
    /\ got' = [accessor |-> accessor, value |-> value]
    /\ UNCHANGED <<call, ret, self, passed>>

ReadMailboxStr ==
    /\ self.t = "Mailbox"
    /\ Reads("__str__", MailboxStr(self))

ReadMailboxName ==
    /\ self.t = "Mailbox"
    /\ Reads("name", MailboxName(self))

ReadMailboxEmailAddress ==
    /\ self.t = "Mailbox"
    /\ Reads("email_address", MailboxEmailAddress(self))

ReadEmailContent ==
    /\ self.t = "Email"
    /\ Reads("content", Content(self))

ReadEmailProperty ==
    /\ self.t = "Email"
    /\ \E field \in EmailProperties : Reads(field, EmailProperty(self, field))

\* What the caller appends to the list it passed for a parameter.
Appended(parameter) ==
    IF parameter = "attached_files" THEN Path(<<"/", "h">>) ELSE Bob

\* The number of elements the caller has appended to the lists it passed.
RECURSIVE Sum(_, _)
Sum(f, S) ==
    IF S = {} THEN 0 ELSE LET x == CHOOSE y \in S : TRUE IN f[x] + Sum(f, S \ {x})

AppendedSoFar ==
    Sum([parameter \in OneOrManyParameters |->
            IF passed[parameter].t = "list"
            THEN Len(passed[parameter].items) - Len(call[parameter].items)
            ELSE 0], OneOrManyParameters)

\* The caller appends an element to a list it passed to Email(...).  The field
\* of the Email that holds that very list shows the element too.
CallerAppends ==
    /\ self.t = "Email"
    /\ call.op = "Email"
    /\ \E parameter \in OneOrManyParameters :
          /\ passed[parameter].t = "list"
          /\ AppendedSoFar < MaxAppends
          /\ LET list == List(Append(passed[parameter].items, Appended(parameter)))
             IN  /\ passed' = [passed EXCEPT ![parameter] = list]
                 /\ self' = IF KeepsArgument(call[parameter])
                            THEN [self EXCEPT ![parameter] = list]
                            ELSE self
    /\ UNCHANGED <<call, ret, got>>

Next ==
    \/ NewMailbox
    \/ CallMailboxFromJson
    \/ NewEmail
    \/ CallEmailFromJson
    \/ ReadMailboxStr
    \/ ReadMailboxName
    \/ ReadMailboxEmailAddress
    \/ ReadEmailContent
    \/ ReadEmailProperty
    \/ CallerAppends

Spec == Init /\ [][Next]_vars

----------------------------------------------------------------------------
\* Vocabulary of the properties.

\* A string that is present and not empty.
NonEmpty(value) == value.t = "str" /\ value.s # <<>>

\* The trimmed, lower-cased form of a string.
Normalized(s) == lower(strip(s))

\* The bodies the caller gave, as arguments or inside the payload.
GivenHtml ==
    IF call.op = "Email" THEN call.html_content ELSE Get(call.payload, "html_content")

GivenText ==
    IF call.op = "Email" THEN call.text_content ELSE Get(call.payload, "text_content")

\* A mailbox payload that holds an address the validation utility accepts.
ValidMailboxPayload(p) ==
    /\ p.t = "dict"
    /\ HasKey(p, "email_address")
    /\ IsEmailAddress(Normalized(p.d["email_address"].s))

\* A mailbox payload that holds an address the validation utility rejects.
InvalidMailboxPayload(p) ==
    /\ p.t = "dict"
    /\ HasKey(p, "email_address")
    /\ ~IsEmailAddress(Normalized(p.d["email_address"].s))

\* The mailbox a valid payload describes.
MailboxOf(p) ==
    MailboxObject(IF HasKey(p, "name") /\ p.d["name"].t = "str"
                  THEN Str(strip(p.d["name"].s)) ELSE None,
                  Str(Normalized(p.d["email_address"].s)))

RequiredKeys == {"author", "subject", "recipients"}

OptionalKeys == {"cc_recipients", "bcc_recipients", "html_content", "text_content"}

RecipientKeys == {"recipients", "cc_recipients", "bcc_recipients"}

----------------------------------------------------------------------------
\* C1: Constructing an Email, whatever the author, recipients and subject,
\* fails with ValueError("Empty content") and leaves no Email when
\* html_content and text_content are each absent or empty; when one of them is
\* not empty, the construction does not fail with that error.
C1_EmptyContentRejected ==
    call.op = "Email" =>
        IF ~NonEmpty(call.html_content) /\ ~NonEmpty(call.text_content)
        THEN Raised(ret, "ValueError") /\ ret.arg = "Empty content" /\ self = None
        ELSE ~(Raised(ret, "ValueError") /\ ret.arg = "Empty content")

\* An Email with an empty HTML body, no text body and a single mailbox as
\* recipients was rejected.
C1_Witness ==
    /\ call.op = "Email"
    /\ call.html_content = Str(<<>>)
    /\ call.text_content = None
    /\ call.recipients = Bob
    /\ Raised(ret, "ValueError")

\* C2: For each of recipients, cc_recipients, bcc_recipients and
\* attached_files, when the argument is a single value that is no collection
\* (one Mailbox, one path as a string or as a path object), the construction
\* succeeds and the stored field is the one-element list of that value.
C2_ScalarWrapped ==
    (/\ call.op = "Email"
     /\ NonEmpty(call.html_content) \/ NonEmpty(call.text_content)) =>
        /\ Returned(ret)
        /\ \A parameter \in OneOrManyParameters :
              call[parameter].t \in {"Mailbox", "str", "Path"} =>
                  self[parameter] = List(<<call[parameter]>>)

\* C3: On every Email constructed, by the constructor or by from_json, every
\* read of content returns the html_content given when that is present and
\* not empty, and the text_content given otherwise; what it returns is never
\* absent nor empty.
C3_ContentPrefersHtml ==
    got.accessor = "content" =>
        /\ got.value = IF NonEmpty(GivenHtml) THEN GivenHtml ELSE GivenText
        /\ NonEmpty(got.value)

\* The content of an Email given the empty string as HTML body was read, and
\* it is the text body.
C3_Witness ==
    /\ call.op = "Email"
    /\ call.html_content = Str(<<>>)
    /\ got.accessor = "content"
    /\ got.value = call.text_content

\* C4: Mailbox.from_json returns None for the payload None; for a mapping it
\* returns the Mailbox the constructor builds from payload['email_address'] and
\* payload.get('name'), or raises KeyError when email_address is missing, or
\* ValueError when the address is invalid.  It returns nothing but None or a
\* Mailbox.
C4_MailboxFromJson ==
    call.op = "Mailbox.from_json" =>
        /\ call.payload = None => Returned(ret) /\ self = None
        /\ call.payload.t = "dict" =>
              \/ Returned(ret) /\ ValidMailboxPayload(call.payload)
                               /\ self = MailboxOf(call.payload)
              \/ Raised(ret, "KeyError") /\ ~HasKey(call.payload, "email_address")
              \/ Raised(ret, "ValueError") /\ InvalidMailboxPayload(call.payload)
        /\ Returned(ret) => self.t \in {"None", "Mailbox"}

\* C5, as claimed: Email.from_json returns None for the payload None; for a
\* mapping that lacks one of author, subject and recipients it raises KeyError
\* and returns no Email; no KeyError is about an optional key.
C5_MissingKeyIsKeyError ==
    call.op = "Email.from_json" =>
        /\ call.payload = None => Returned(ret) /\ self = None
        /\ (/\ call.payload.t = "dict"
            /\ \E key \in RequiredKeys : ~HasKey(call.payload, key)) =>
               Raised(ret, "KeyError") /\ self = None
        /\ Raised(ret, "KeyError") => ret.arg \notin OptionalKeys

\* C5, amended: as claimed, except that a payload whose author holds an
\* invalid address fails with the ValueError of building the author, which
\* runs before subject and recipients are read.
C5_MissingKeyFails ==
    call.op = "Email.from_json" =>
        /\ call.payload = None => Returned(ret) /\ self = None
        /\ (/\ call.payload.t = "dict"
            /\ \E key \in RequiredKeys : ~HasKey(call.payload, key)) =>
               /\ self = None
               /\ IF /\ HasKey(call.payload, "author")
                     /\ InvalidMailboxPayload(call.payload.d["author"])
                  THEN Raised(ret, "ValueError")
                  ELSE Raised(ret, "KeyError") /\ ret.arg \in RequiredKeys \cup {"email_address"}
        /\ Raised(ret, "KeyError") => ret.arg \notin OptionalKeys

\* A payload with a valid author and recipients, no subject and no optional
\* key was rejected for its subject.
C5_Witness ==
    /\ call.op = "Email.from_json"
    /\ call.payload.t = "dict"
    /\ DOMAIN call.payload.d = {"author", "recipients"}
    /\ ValidMailboxPayload(call.payload.d["author"])
    /\ Raised(ret, "KeyError")
    /\ ret.arg = "subject"

\* A non-empty sequence of valid mailbox payloads.
ValidMailboxPayloads(value) ==
    /\ value.t = "list"
    /\ value.items # <<>>
    /\ \A i \in 1..Len(value.items) : ValidMailboxPayload(value.items[i])

\* An Email payload with a valid author, a subject and a body that is not
\* empty.
ValidEnvelope(p) ==
    /\ p.t = "dict"
    /\ HasKey(p, "author") /\ ValidMailboxPayload(p.d["author"])
    /\ HasKey(p, "subject")
    /\ NonEmpty(Get(p, "html_content")) \/ NonEmpty(Get(p, "text_content"))

\* C6: Email.from_json, given a payload with a valid author, a subject and a
\* body that is not empty, whose recipients is a non-empty sequence of valid
\* mailbox payloads and whose cc_recipients and bcc_recipients are each such a
\* sequence or missing, returns an Email whose author has the normalized
\* address of the payload's and whose subject and content are the payload's;
\* and in every Email that from_json returns, the field of a key whose value is
\* such a sequence of n payloads is the list of the n mailboxes they describe
\* (normalized address, trimmed name), in the order of the payload.
C6_SequencesPreserved ==
    (call.op = "Email.from_json" /\ call.payload.t = "dict") =>
        LET p == call.payload IN
        /\ (/\ ValidEnvelope(p)
            /\ HasKey(p, "recipients")
            /\ \A key \in RecipientKeys :
                  HasKey(p, key) => ValidMailboxPayloads(p.d[key])) =>
               /\ Returned(ret)
               /\ self.t = "Email"
               /\ self.author.email_address =
                     Str(Normalized(p.d["author"].d["email_address"].s))
               /\ self.subject = p.d["subject"]
               /\ Content(self) = IF NonEmpty(GivenHtml) THEN GivenHtml ELSE GivenText
        /\ Returned(ret) =>
              \A key \in RecipientKeys :
                  (HasKey(p, key) /\ ValidMailboxPayloads(p.d[key])) =>
                      self[key] = List([i \in 1..Len(p.d[key].items) |->
                                            MailboxOf(p.d[key].items[i])])

\* An Email was returned for a payload whose recipients are Bob then Jane,
\* with sequences as cc_recipients and bcc_recipients.
C6_Witness ==
    /\ call.op = "Email.from_json"
    /\ call.payload.t = "dict"
    /\ RecipientKeys \subseteq DOMAIN call.payload.d
    /\ call.payload.d["recipients"] = List(<<PBob, PJane>>)
    /\ call.payload.d["cc_recipients"].t = "list"
    /\ call.payload.d["bcc_recipients"].t = "list"
    /\ Returned(ret)
    /\ self.recipients = List(<<Bob, MailboxOf(PJane)>>)

\* C7: Email.from_json, given a payload with a valid author, a subject and a
\* body that is not empty, whose recipients, cc_recipients and bcc_recipients
\* are each a valid mailbox payload, a non-empty sequence of them, or (the
\* last two) missing, returns an Email in which the field of a key whose
\* value is a single mapping holds the one Mailbox it describes, bare for all
\* three keys or in a one-element list for all three.
C7_SingleMappingAccepted ==
    (/\ call.op = "Email.from_json"
     /\ ValidEnvelope(call.payload)
     /\ HasKey(call.payload, "recipients")
     /\ \A key \in RecipientKeys :
           HasKey(call.payload, key) =>
               \/ ValidMailboxPayload(call.payload.d[key])
               \/ ValidMailboxPayloads(call.payload.d[key])) =>
        LET p == call.payload
            single == {key \in RecipientKeys : HasKey(p, key) /\ p.d[key].t = "dict"}
        IN  /\ Returned(ret)
            /\ \/ \A key \in single : self[key] = MailboxOf(p.d[key])
               \/ \A key \in single : self[key] = List(<<MailboxOf(p.d[key])>>)

\* C8: The string of a Mailbox is a double quote, the stored name (nothing
\* when the name is absent), a double quote, a space, '<', the stored
\* email_address, '>'.
C8_StrRendering ==
    got.accessor = "__str__" =>
        got.value = Str(<<"\"">>
                        \o (IF self.name = None THEN <<>> ELSE self.name.s)
                        \o <<"\"", " ", "<">> \o self.email_address.s \o <<">">>)

\* C9: Mailbox(email_address, name) hands email_address to the validation
\* utility, once; it raises ValueError and leaves no Mailbox exactly when the
\* utility rejects the string, and otherwise returns a Mailbox whose
\* email_address is the string trimmed and lower-cased.  Every Mailbox
\* returned, by the constructor or by from_json, holds a valid address in
\* normalized form.
C9_AddressValidatedAndNormalized ==
    /\ call.op = "Mailbox" =>
          /\ ret.log = <<call.email_address>>
          /\ IF Returned(string_to_email_address(call.email_address))
             THEN /\ Returned(ret)
                  /\ self.t = "Mailbox"
                  /\ self.email_address = Str(Normalized(call.email_address.s))
             ELSE Raised(ret, "ValueError") /\ self = None
    /\ self.t = "Mailbox" =>
          /\ IsEmailAddress(self.email_address.s)
          /\ self.email_address.s = Normalized(self.email_address.s)
          /\ got.accessor = "email_address" => got.value = self.email_address

\* The Mailbox of " A@a" was built, and its email_address read: "a@a".
C9_Witness ==
    /\ call.op = "Mailbox"
    /\ call.email_address = Str(<<" ", "A", "@", "a">>)
    /\ Returned(ret)
    /\ got.accessor = "email_address"
    /\ got.value = Str(<<"a", "@", "a">>)

\* C10: In a Mailbox the constructor returned, the name is None when none was
\* given, and the given name without its surrounding whitespace when one was;
\* a name that is empty, or empty once trimmed, is stored as the empty string,
\* not as None.  The property name returns the stored name.
C10_NameTrimmed ==
    (call.op = "Mailbox" /\ Returned(ret)) =>
        /\ call.name = None => self.name = None
        /\ call.name.t = "str" => self.name = Str(strip(call.name.s))
        /\ (call.name.t = "str" /\ strip(call.name.s) = <<>>) =>
               self.name = Str(<<>>) /\ self.name # None
        /\ got.accessor = "name" => got.value = self.name

\* The name of a Mailbox built with a name of two spaces was read: the empty
\* string.
C10_Witness ==
    /\ call.op = "Mailbox"
    /\ call.name = Str(<<" ", " ">>)
    /\ Returned(ret)
    /\ got.accessor = "name"
    /\ got.value = Str(<<>>)

\* C11, as claimed: whatever the caller does after an Email is constructed
\* (reads, or changes to a collection it passed), every accessor returns what
\* it returned right after construction.
C11_AccessorsNeverChange ==
    self.t = "Email" =>
        /\ \A field \in EmailProperties :
              EmailProperty(self, field) = EmailProperty(ret.value, field)
        /\ Content(self) = Content(ret.value)
        /\ self.author = ret.value.author
        /\ self.subject = ret.value.subject

\* C11, amended: reads change nothing, and every accessor returns what it
\* returned right after construction, except that a list the caller passed as
\* recipients, cc_recipients, bcc_recipients or attached_files is kept as the
\* caller's own object: its accessor returns that list as the caller has it
\* now.
C11_SameUnlessCallerModifies ==
    self.t = "Email" =>
        /\ \A field \in EmailProperties :
              EmailProperty(self, field) =
                  IF call.op = "Email" /\ passed[field].t = "list"
                  THEN passed[field]
                  ELSE EmailProperty(ret.value, field)
        /\ Content(self) = Content(ret.value)
        /\ self.author = ret.value.author
        /\ self.subject = ret.value.subject
        /\ self.html_content = ret.value.html_content
        /\ self.text_content = ret.value.text_content

\* The caller appended a mailbox to the list it passed as recipients and then
\* read recipients: the list with the mailbox appended.
C11_Witness ==
    /\ call.op = "Email"
    /\ self.t = "Email"
    /\ call.recipients = List(<<Jane>>)
    /\ passed["recipients"] = List(<<Jane, Bob>>)
    /\ got.accessor = "recipients"
    /\ got.value = List(<<Jane, Bob>>)

\* The failure of a step of Email.from_json: <<error, arg>>, or NoFailure.
NoFailure == <<>>

\* The failure of building one mailbox from its payload.
MailboxFailure(p) ==
    IF ~Truthy(p) THEN NoFailure
    ELSE IF ~HasKey(p, "email_address") THEN <<"KeyError", "email_address">>
    ELSE IF InvalidMailboxPayload(p) THEN <<"ValueError", "Invalid email address">>
    ELSE NoFailure

\* The first failure of a sequence of failures.
RECURSIVE FirstFailure(_)
FirstFailure(failures) ==
    IF failures = <<>> THEN NoFailure
    ELSE IF Head(failures) # NoFailure THEN Head(failures)
    ELSE FirstFailure(Tail(failures))

\* The failure of building the mailboxes of a recipients value: one mapping,
\* or a sequence of mappings.
MailboxesFailure(value) ==
    IF value.t = "list"
    THEN FirstFailure([i \in 1..Len(value.items) |-> MailboxFailure(value.items[i])])
    ELSE MailboxFailure(value)

\* The failure of reading a required key.
KeyFailure(p, key) == IF HasKey(p, key) THEN NoFailure ELSE <<"KeyError", key>>

\* The first failure of the steps of Email.from_json, in the order claimed.
ClaimedFailure(p) ==
    FirstFailure(<<
        KeyFailure(p, "author"),
        MailboxFailure(Get(p, "author")),
        KeyFailure(p, "subject"),
        KeyFailure(p, "recipients"),
        MailboxesFailure(Get(p, "recipients")),
        MailboxesFailure(Get(p, "cc_recipients")),
        MailboxesFailure(Get(p, "bcc_recipients")),
        IF NonEmpty(Get(p, "html_content")) \/ NonEmpty(Get(p, "text_content"))
        THEN NoFailure ELSE <<"ValueError", "Empty content">> >>)

\* C12: Email.from_json reads and builds author, reads subject, reads and
\* builds recipients, builds cc_recipients, builds bcc_recipients, then runs
\* the constructor's test of the bodies, and raises the first failure in that
\* order: ValueError("Empty content") exactly when no earlier step fails and
\* no body is given; the KeyError of a missing key or the ValueError of an
\* invalid address otherwise, a body given or not.
C12_FirstFailureReported ==
    (call.op = "Email.from_json" /\ call.payload.t = "dict") =>
        LET failure == ClaimedFailure(call.payload)
        IN  /\ failure # NoFailure =>
                  Raised(ret, failure[1]) /\ ret.arg = failure[2]
            /\ (Raised(ret, "ValueError") /\ ret.arg = "Empty content") =>
                  failure = <<"ValueError", "Empty content">>

====
